---- MODULE Spec2Model ----
(***************************************************************************)
(* Altman Z-Score service: the document extractor (app/sec_client.py), the *)
(* score calculator (app/calculator.py), the identifier resolver           *)
(* (app/utils.py) and the request handler (app/main.py).                   *)
(*                                                                         *)
(* Text is a sequence of tokens: one token is a word, a digit, a           *)
(* punctuation character, a whitespace character or a markup tag.  A       *)
(* Python float is a decimal [m, e] standing for m * 10^e (extractor) or a *)
(* rational [n, d] (calculator); both are exact, so binary rounding of     *)
(* IEEE doubles is outside the model.                                      *)
(***************************************************************************)
EXTENDS Integers, Sequences, FiniteSets, TLC

VARIABLES
    html_content,    \* extractor: the argument of extract_financial_data_from_html
    text_lower,      \* extractor: soup.get_text().lower()
    financial_data,  \* extractor: the dict being filled, key -> value
    key_idx,         \* extractor: position of the loop over patterns.items()
    ex_pc,           \* extractor: "start" | "loop" | "validate" | "done" | "idle"
    ex_result,       \* extractor: the returned dict, or None
    calc_args,       \* calculator: the seven arguments of calculate_altman_z_score
    calc_x,          \* calculator: the locals x1..x5 at full precision
    calc_z,          \* calculator: the local z_score at full precision
    calc_pc,         \* calculator: "call" | "classify" | "done" | "raised" | "idle"
    calc_ret,        \* calculator: the returned dict, or None before the return
    company_identifier, \* resolver: the argument of get_cik_and_ticker
    tickers_json,    \* resolver: what the request for company_tickers.json gives
    entry_idx,       \* resolver: position of the loop over data.values()
    res_pc,          \* resolver: "call" | "loop" | "done" | "idle"
    res_result,      \* resolver: the returned dict, or None
    company,         \* handler: the path parameter of get_zscore
    sec,             \* handler: what the three requests to sec.gov give
    yf_info,         \* handler: what Yahoo Finance gives for the ticker
    h_pc,            \* handler: "resolve" | "financial" | "stock" | "calculate" |
                     \*          "respond" | "done" | "idle"
    cik_ticker_info, \* handler: local of get_zscore
    fin_data,        \* handler: the local financial_data of get_zscore
    stock_data,      \* handler: local of get_zscore
    zscore_result,   \* handler: local of get_zscore
    status_code,     \* handler: status of the answer, 0 before there is one
    detail,          \* handler: detail of the HTTPException raised, or None
    response,        \* handler: the ZScoreResponse returned, or None
    calls,           \* handler: the collaborators called so far, in order
    cik,             \* locator: the argument of get_latest_10q_filing
    submissions_json,\* locator: what the request for the submissions gives
    form_idx,        \* locator: the index i of the loop over forms
    loc_pc,          \* locator: "call" | "loop" | "done" | "idle"
    filing           \* locator: the returned dict, or None

exVars == <<html_content, text_lower, financial_data, key_idx, ex_pc, ex_result>>
calcVars == <<calc_args, calc_x, calc_z, calc_pc, calc_ret>>
resVars == <<company_identifier, tickers_json, entry_idx, res_pc, res_result>>
envVars == <<company, sec, yf_info>>
reqVars == <<h_pc, cik_ticker_info, fin_data, stock_data, zscore_result,
             status_code, detail, response, calls>>
locVars == <<cik, submissions_json, form_idx, loc_pc, filing>>
vars == <<exVars, calcVars, resVars, envVars, reqVars, locVars>>

\* Python's None: a value that is no number and no dict
None == [none |-> TRUE]

\* a request that failed: raise_for_status() or the transport raised
FetchError == [status |-> "error"]

\* a request that gave a body
Fetched(body) == [status |-> "ok", body |-> body]

ResIdle ==
    /\ company_identifier = <<>>
    /\ tickers_json = FetchError
    /\ entry_idx = 1
    /\ res_pc = "idle"
    /\ res_result = None

LocIdle ==
    /\ cik = <<>>
    /\ submissions_json = FetchError
    /\ form_idx = 0
    /\ loc_pc = "idle"
    /\ filing = None

HandlerIdle ==
    /\ company = <<>>
    /\ sec = [tickers |-> FetchError, submissions |-> FetchError,
              document |-> FetchError]
    /\ yf_info = FetchError
    /\ h_pc = "idle"
    /\ cik_ticker_info = None
    /\ fin_data = None
    /\ stock_data = None
    /\ zscore_result = None
    /\ status_code = 0
    /\ detail = None
    /\ response = None
    /\ calls = <<>>

\* ------------------------------------------------------------------ tokens

Digits == {"0", "1", "2", "3", "4", "5", "6", "7", "8", "9"}

DigitVal(t) ==
    CASE t = "0" -> 0 [] t = "1" -> 1 [] t = "2" -> 2 [] t = "3" -> 3
      [] t = "4" -> 4 [] t = "5" -> 5 [] t = "6" -> 6 [] t = "7" -> 7
      [] t = "8" -> 8 [] t = "9" -> 9

\* \s of the regular expressions
Spaces == {" ", "\n"}

\* [\d,\(\)] of the capture group
GroupChars == Digits \cup {",", "(", ")"}

Markup == {"<td>", "</td>"}

\* str.lower() on a token
Lower(t) ==
    CASE t = "Total" -> "total"
      [] t = "Current" -> "current"
      [] t = "Retained" -> "retained"
      [] t = "Accumulated" -> "accumulated"
      [] t = "Operating" -> "operating"
      [] t = "Income" -> "income"
      [] t = "Net" -> "net"
      [] t = "Million" -> "million"
      [] OTHER -> t

\* 'million' in s, 'thousand' in s, 'billion' in s for a token s
TokenContains(t, word) ==
    \/ t = word
    \/ word = "million" /\ t = "millions"
    \/ word = "thousand" /\ t = "thousands"
    \/ word = "billion" /\ t = "billions"

ScaleWords == {"million", "thousand", "billion"}

\* a token at which (?:million|thousand|billion) matches
StartsWithScaleWord(t) == \E w \in ScaleWords : TokenContains(t, w)

\* ------------------------------------------------------------ decimals

RECURSIVE Pow10(_)
Pow10(k) == IF k = 0 THEN 1 ELSE 10 * Pow10(k - 1)

RECURSIVE DecNorm(_, _)
DecNorm(m, e) ==
    IF m = 0 THEN [m |-> 0, e |-> 0]
    ELSE IF m % 10 = 0 THEN DecNorm(m \div 10, e + 1)
    ELSE [m |-> m, e |-> e]

DecInt(n) == DecNorm(n, 0)

DecNeg(v) == [m |-> 0 - v.m, e |-> v.e]

DecAbs(v) == IF v.m < 0 THEN DecNeg(v) ELSE v

\* v * 10^k
DecScale(v, k) == IF v.m = 0 THEN v ELSE [m |-> v.m, e |-> v.e + k]

RECURSIVE NumDigits(_)
NumDigits(n) == IF n < 10 THEN 1 ELSE 1 + NumDigits(n \div 10)

\* a < b for a, b > 0 whose leading digits stand at the same power of ten
DecLessAligned(a, b, e0) == a.m * Pow10(a.e - e0) < b.m * Pow10(b.e - e0)

\* a < b for a, b > 0, given the power of ten of the leading digit of each
DecLessOrder(a, b, oa, ob) ==
    IF oa # ob THEN oa < ob
    ELSE DecLessAligned(a, b, IF a.e < b.e THEN a.e ELSE b.e)

\* a < b for a, b >= 0
DecLess(a, b) ==
    IF a.m = 0 THEN b.m > 0
    ELSE IF b.m = 0 THEN FALSE
    ELSE DecLessOrder(a, b, NumDigits(a.m) + a.e, NumDigits(b.m) + b.e)

DecSubAligned(a, b, e0) ==
    DecNorm(a.m * Pow10(a.e - e0) - b.m * Pow10(b.e - e0), e0)

\* a - b
DecSub(a, b) ==
    IF b.m = 0 THEN a
    ELSE IF a.m = 0 THEN DecNeg(b)
    ELSE DecSubAligned(a, b, IF a.e < b.e THEN a.e ELSE b.e)

\* ------------------------------------------------------------ parse_number

RemoveAll(s, drop) == SelectSeq(s, LAMBDA t : t \notin drop)

RECURSIVE StripLeft(_)
StripLeft(s) ==
    IF s # <<>> /\ Head(s) \in Spaces THEN StripLeft(Tail(s)) ELSE s

RECURSIVE StripRight(_)
StripRight(s) ==
    IF s # <<>> /\ s[Len(s)] \in Spaces
    THEN StripRight(SubSeq(s, 1, Len(s) - 1)) ELSE s

Strip(s) == StripRight(StripLeft(s))

\* the literals float() accepts among sequences of digits and "."
IsFloatLiteral(s) ==
    /\ s # <<>>
    /\ \A i \in 1..Len(s) : s[i] \in Digits \cup {"."}
    /\ Cardinality({i \in 1..Len(s) : s[i] = "."}) <= 1
    /\ \E i \in 1..Len(s) : s[i] \in Digits

RECURSIVE DigitsToInt(_)
DigitsToInt(s) ==
    IF s = <<>> THEN 0
    ELSE 10 * DigitsToInt(SubSeq(s, 1, Len(s) - 1)) + DigitVal(s[Len(s)])

\* the number of digits after the "." of a literal
FracDigits(s, dots) == IF dots = {} THEN 0 ELSE Len(s) - (CHOOSE i \in dots : TRUE)

\* float(s) for a literal s
FloatOf(s) ==
    DecNorm(DigitsToInt(RemoveAll(s, {"."})),
            0 - FracDigits(s, {i \in 1..Len(s) : s[i] = "."}))

\* line 113
IsNegative(cleaned) ==
    /\ cleaned # <<>>
    /\ Head(cleaned) = "("
    /\ cleaned[Len(cleaned)] = ")"

\* lines 118-124: float() of what is left, negated for a parenthesised literal
ParseInner(is_negative, inner) ==
    IF ~IsFloatLiteral(inner) THEN None
    ELSE IF is_negative THEN DecNeg(FloatOf(inner))
    ELSE FloatOf(inner)

\* lines 113-115
ParseCleaned(cleaned) ==
    ParseInner(IsNegative(cleaned),
               IF IsNegative(cleaned) THEN SubSeq(cleaned, 2, Len(cleaned) - 1)
               ELSE cleaned)

parse_number(value_str) == ParseCleaned(Strip(RemoveAll(value_str, {",", "$"})))

\* ------------------------------------------------- the label patterns

\* the keys of the patterns dict, in insertion order
Keys == <<"current_assets", "current_liabilities", "total_assets",
          "retained_earnings", "operating_income", "total_liabilities", "sales">>

\* patterns[key]: the variants of a key in list order; a variant is the words
\* of its label, which the regular expression joins with \s+.  Every variant
\* continues with [^\d]*[\$]?\s*([\d,\(\)]+\.?\d*)\s*(?:million|thousand|billion)?
patterns ==
    [current_assets |-> << <<"total", "current", "assets">>,
                           <<"current", "assets">> >>,
     current_liabilities |-> << <<"total", "current", "liabilities">>,
                                <<"current", "liabilities">> >>,
     total_assets |-> << <<"total", "assets">> >>,
     retained_earnings |-> << <<"retained", "earnings">>,
                              <<"accumulated", "retained", "earnings">> >>,
     operating_income |-> << <<"operating", "income">>,
                             <<"income", "from", "operations">> >>,
     total_liabilities |-> << <<"total", "liabilities">> >>,
     sales |-> << <<"net", "sales">>,
                  <<"total", "revenue">>,
                  <<"net", "revenue">>,
                  <<"total", "net", "revenue">> >>]

\* --------------------------------------------------------- re.finditer

\* the first index >= i whose token is not in S (Len(text) + 1 when none)
RECURSIVE RunEnd(_, _, _)
RunEnd(text, i, S) ==
    IF i <= Len(text) /\ text[i] \in S THEN RunEnd(text, i + 1, S) ELSE i

\* the first index >= i whose token is a digit (Len(text) + 1 when none)
RECURSIVE NextDigit(_, _)
NextDigit(text, i) ==
    IF i <= Len(text) /\ text[i] \notin Digits THEN NextDigit(text, i + 1) ELSE i

\* word \s+ word ... at index i: the index after the label, 0 when it is not there
RECURSIVE LabelEnd(_, _, _)
LabelEnd(text, i, words) ==
    IF i > Len(text) \/ text[i] # Head(words) THEN 0
    ELSE IF Len(words) = 1 THEN i + 1
    ELSE LET j == RunEnd(text, i + 1, Spaces)
         IN  IF j = i + 1 THEN 0 ELSE LabelEnd(text, j, Tail(words))

NoMatch == [start |-> 0, end |-> 0, group |-> <<>>, scale |-> ""]

\* the largest element of a set of indices, 0 when it is empty
LastOf(S) == IF S = {} THEN 0 ELSE CHOOSE k \in S : \A k2 \in S : k2 <= k

\* Where the capture group starts after a label that ends before index j, d
\* being the index of the next digit.  The filler [^\d]* is greedy: it runs
\* to the next digit, and the rest of the pattern then matches at that digit;
\* with no digit left it backs off to the last of , ( ) after the label, the
\* only place the group can still start.  0 when the group cannot start.
GroupStartAt(text, j, d) ==
    IF d <= Len(text) THEN d
    ELSE LastOf({ k \in j..Len(text) : text[k] \in {",", "(", ")"} })

GroupStart(text, j) == GroupStartAt(text, j, NextDigit(text, j))

\* \.?\d* after the run [\d,\(\)]+ that ends before index ge1
GroupEndAt(text, ge1) ==
    RunEnd(text,
           IF ge1 <= Len(text) /\ text[ge1] = "." THEN ge1 + 1 ELSE ge1,
           Digits)

\* the index after the capture group that starts at gs
GroupEnd(text, gs) == GroupEndAt(text, RunEnd(text, gs, GroupChars))

\* (?:million|thousand|billion) matches at index ws
Trailing(text, ws) == ws <= Len(text) /\ StartsWithScaleWord(text[ws])

\* the match whose group is gs..ge-1 and whose trailing \s* ends before ws
MatchTail(text, i, gs, ge, ws) ==
    [start |-> i,
     end |-> IF Trailing(text, ws) THEN ws + 1 ELSE ws,
     group |-> SubSeq(text, gs, ge - 1),
     scale |-> IF Trailing(text, ws)
               THEN CHOOSE w \in ScaleWords : TokenContains(text[ws], w)
               ELSE ""]

MatchGroup(text, i, gs, ge) == MatchTail(text, i, gs, ge, RunEnd(text, ge, Spaces))

MatchFrom(text, i, gs) ==
    IF gs = 0 THEN NoMatch ELSE MatchGroup(text, i, gs, GroupEnd(text, gs))

MatchLabel(text, i, j) ==
    IF j = 0 THEN NoMatch ELSE MatchFrom(text, i, GroupStart(text, j))

\* the match of a variant that starts at index i, or NoMatch
MatchAt(text, i, words) == MatchLabel(text, i, LabelEnd(text, i, words))

\* the leftmost match starting at or after pos, or NoMatch
RECURSIVE SearchFrom(_, _, _)
SearchNext(m, text, pos, words) ==
    IF m # NoMatch THEN m ELSE SearchFrom(text, pos + 1, words)

SearchFrom(text, pos, words) ==
    IF pos > Len(text) THEN NoMatch
    ELSE IF text[pos] # Head(words) THEN SearchFrom(text, pos + 1, words)
    ELSE SearchNext(MatchAt(text, pos, words), text, pos, words)

\* re.finditer(pattern, text): the non-overlapping matches, left to right
RECURSIVE FindIterFrom(_, _, _)
FindIterCons(m, text, words) ==
    IF m = NoMatch THEN <<>>
    ELSE <<m>> \o FindIterFrom(text, m.end, words)

FindIterFrom(text, pos, words) == FindIterCons(SearchFrom(text, pos, words), text, words)

finditer(words, text) == FindIterFrom(text, 1, words)

\* match.group(0)
MatchText(text, m) == SubSeq(text, m.start, m.end - 1)

\* word in match_text
ContainsWord(s, word) == \E i \in 1..Len(s) : TokenContains(s[i], word)

\* lines 189-195: the scale indicator is looked for in the whole match text
ApplyScale(parsed_value, match_text) ==
    IF ContainsWord(match_text, "million") THEN DecScale(parsed_value, 6)
    ELSE IF ContainsWord(match_text, "thousand") THEN DecScale(parsed_value, 3)
    ELSE IF ContainsWord(match_text, "billion") THEN DecScale(parsed_value, 9)
    ELSE parsed_value

\* lines 186-196: the value a match adds to values_found, if any
ValueOfMatch(parsed_value, match_text) ==
    IF parsed_value # None
    THEN <<DecAbs(ApplyScale(parsed_value, match_text))>>
    ELSE <<>>

\* a loop over the matches that ends at the first literal that fails to parse
RECURSIVE ValuesUntilFailure(_, _)
ValuesUntilFailure(text, matches) ==
    IF matches = <<>> THEN <<>>
    ELSE IF parse_number(Head(matches).group) = None THEN <<>>
    ELSE <<DecAbs(ApplyScale(parse_number(Head(matches).group),
                             MatchText(text, Head(matches))))>>
         \o ValuesUntilFailure(text, Tail(matches))

\* lines 183-196: values_found of one variant
RECURSIVE ValuesOf(_, _)
ValuesOf(text, matches) ==
    IF matches = <<>> THEN <<>>
    ELSE ValueOfMatch(parse_number(Head(matches).group),
                      MatchText(text, Head(matches)))
         \o ValuesOf(text, Tail(matches))

values_found(text, words) == ValuesOf(text, finditer(words, text))

Max2(a, b) == IF DecLess(a, b) THEN b ELSE a

\* a selection that keeps the first candidate instead of the largest
FirstValue(values) == values[1]

\* max(values) of a non-empty list of values >= 0
RECURSIVE MaxValue(_)
MaxValue(values) ==
    IF Len(values) = 1 THEN values[1]
    ELSE Max2(values[1], MaxValue(Tail(values)))

\* lines 181-201: the variants of one key tried from index k on; the value
\* stored for the key, or None when no variant yields a value
RECURSIVE TryPatterns(_, _, _)
TryFound(found, text, pattern_list, k) ==
    IF found # <<>> THEN MaxValue(found)
    ELSE TryPatterns(text, pattern_list, k + 1)

TryPatterns(text, pattern_list, k) ==
    IF k > Len(pattern_list) THEN None
    ELSE TryFound(values_found(text, pattern_list[k]), text, pattern_list, k)

ExtractKey(text, key) == TryPatterns(text, patterns[key], 1)

\* soup.get_text(): markup tags are dropped, text nodes are kept
GetText(html) == RemoveAll(html, Markup)

LowerText(text) == [i \in 1..Len(text) |-> Lower(text[i])]

required_fields == {Keys[i] : i \in 1..Len(Keys)}

\* a validation that lets a partial dict through
ValidateAny(data) ==
    IF data = [k \in {} |-> 0] THEN None
    ELSE IF {"current_assets", "current_liabilities"} \subseteq DOMAIN data
    THEN data @@ [k \in {"working_capital"} |->
                     DecSub(data["current_assets"], data["current_liabilities"])]
    ELSE data

\* a validation that subtracts the wrong way round
ValidateSwapped(data) ==
    IF \A field \in {Keys[i] : i \in 1..Len(Keys)} : field \in DOMAIN data
    THEN data @@ [k \in {"working_capital"} |->
                     DecSub(data["current_liabilities"], data["current_assets"])]
    ELSE None

\* lines 207-214: the dict given back, or None
Validate(data) ==
    IF \A field \in required_fields : field \in DOMAIN data
    THEN data @@ [k \in {"working_capital"} |->
                     DecSub(data["current_assets"], data["current_liabilities"])]
    ELSE None

\* lines 198-200: financial_data[key] = value, when there is one
Store(data, key, v) == IF v = None THEN data ELSE data @@ [k \in {key} |-> v]

\* extract_financial_data_from_html as one function of its argument
RECURSIVE FillFrom(_, _, _)
FillFrom(text, data, i) ==
    IF i > Len(Keys) THEN data
    ELSE FillFrom(text, Store(data, Keys[i], ExtractKey(text, Keys[i])), i + 1)

EmptyDict == [k \in {} |-> None]

extract_financial_data_from_html(html) ==
    Validate(FillFrom(LowerText(GetText(html)), EmptyDict, 1))

\* ------------------------------------------------ the filings explored

\* slots of a filing that may differ from the default line
MaxVaried == 2
\* label-and-number clauses in the one line that is explored in depth
MaxClauses == 2

Capital(t) ==
    CASE t = "total" -> "Total"
      [] t = "current" -> "Current"
      [] t = "retained" -> "Retained"
      [] t = "accumulated" -> "Accumulated"
      [] t = "operating" -> "Operating"
      [] t = "income" -> "Income"
      [] t = "net" -> "Net"
      [] OTHER -> t

RECURSIVE JoinWords(_)
JoinWords(words) ==
    IF Len(words) = 1 THEN words
    ELSE <<Head(words), " ">> \o JoinWords(Tail(words))

\* a label as a filing prints it: "Total current assets"
LabelText(words) == <<Capital(Head(words))>> \o Tail(JoinWords(words))

\* what follows a label on its line
SimpleBodies ==
    { <<" ", "$", "1", ",", "2", "3", "4", ",", "5", "6", "7">>,
      <<" ", "$", "(", "2", "3", "4", ",", "5", "6", "7", ")">>,
      <<" ", "$", "4", "5", ".", "2", " ", "million">>,
      <<" ", "(", "in", " ", "millions", ")", " ", "7">>,
      <<>> }

RichBodies ==
    SimpleBodies \cup
    { <<" ", "3", " ", "thousand">>,
      <<" ", "2", " ", "billion">>,
      <<" ", "(", "in", " ", "thousands", ")", " ", "4", " ", "billion">>,
      <<" ", "(", "note", ")">>,
      <<" ", "1", "2", "(", "3", ")">>,
      <<"</td>", "<td>", "8">>,
      <<" ", "1", "0", "0">> }

RepeatBodies == { <<" ", "5", "0", "0">>, <<" ", "3">> }

DefaultDigit ==
    [current_assets |-> "9", current_liabilities |-> "4", total_assets |-> "8",
     retained_earnings |-> "3", operating_income |-> "2",
     total_liabilities |-> "6", sales |-> "7"]

Clauses(key, bodies) ==
    { LabelText(patterns[key][v]) \o b : v \in 1..Len(patterns[key]), b \in bodies }

LineOf(key, body) == LabelText(patterns[key][1]) \o body

DefaultLine(key) == LineOf(key, <<" ", DefaultDigit[key]>>)

\* lines of at most n clauses: a first clause, then repeats of the label
RECURSIVE RichLines(_, _)
RichLines(key, n) ==
    IF n = 0 THEN { <<>> }
    ELSE IF n = 1 THEN { <<>> } \cup Clauses(key, RichBodies)
    ELSE RichLines(key, n - 1) \cup
         { l \o <<"\n">> \o c : l \in RichLines(key, n - 1) \ { <<>> },
                                c \in Clauses(key, RepeatBodies) }

SimpleLines(key) == { <<>> } \cup { LineOf(key, b) : b \in SimpleBodies }

\* the filings made of the lines of slots i..7, at most budget of them varied
RECURSIVE FilingsFrom(_, _, _)
FilingsFrom(i, budget, rich) ==
    IF i > Len(Keys) THEN { <<>> }
    ELSE LET key == Keys[i]
             lines == IF rich THEN RichLines(key, MaxClauses) ELSE SimpleLines(key)
         IN  { DefaultLine(key) \o <<"\n">> \o r : r \in FilingsFrom(i + 1, budget, rich) }
             \cup
             ( IF budget = 0 THEN {}
               ELSE { l \o <<"\n">> \o r :
                        l \in lines, r \in FilingsFrom(i + 1, budget - 1, rich) } )

\* texts that are no filing: empty, markup only, labels without a number,
\* punctuation only
MalformedFilings ==
    { <<>>,
      <<"<td>">>,
      <<"<td>", "</td>", "\n">>,
      <<"Total", " ", "assets">>,
      <<"Total", " ", "assets", " ", "(", ")", ",">>,
      <<"(", ")", ",", ".", "$">>,
      <<"1", "2", "(", "3", ")">> }

Filings ==
    FilingsFrom(1, MaxVaried, FALSE) \cup FilingsFrom(1, 1, TRUE) \cup MalformedFilings

\* ------------------------------------------------------------ rationals

RECURSIVE GCD(_, _)
GCD(a, b) == IF b = 0 THEN a ELSE GCD(b, a % b)

AbsInt(n) == IF n < 0 THEN 0 - n ELSE n

RatReduce(n, d, g) == [n |-> n \div g, d |-> d \div g]

\* n / d in lowest terms with a positive denominator, d # 0
Rat(n, d) ==
    IF d < 0 THEN RatReduce(0 - n, 0 - d, GCD(AbsInt(n), AbsInt(d)))
    ELSE RatReduce(n, d, GCD(AbsInt(n), AbsInt(d)))

RatZero == [n |-> 0, d |-> 1]

RatAdd(a, b) == Rat(a.n * b.d + b.n * a.d, a.d * b.d)

RatMul(a, b) == Rat(a.n * b.n, a.d * b.d)

RatGt(a, b) == a.n * b.d > b.n * a.d

\* the first k decimals of rem / d (0 <= rem < d) as an integer, and what is left
RECURSIVE Decimals(_, _, _)
DecimalsCons(digit, k, rest) ==
    [val |-> digit * Pow10(k - 1) + rest.val, rem |-> rest.rem]

Decimals(rem, d, k) ==
    IF k = 0 THEN [val |-> 0, rem |-> rem]
    ELSE DecimalsCons((rem * 10) \div d, k, Decimals((rem * 10) % d, d, k - 1))

\* the multiple of 10^-k nearest to floor + rem / d, ties to the even one
RoundUnits(floor, rem, d) ==
    IF 2 * rem > d THEN floor + 1
    ELSE IF 2 * rem < d THEN floor
    ELSE floor + (floor % 2)

RoundDec(a, d, k, dec) == RoundUnits((a \div d) * Pow10(k) + dec.val, dec.rem, d)

RoundAbs(a, d, k) == RoundDec(a, d, k, Decimals(a % d, d, k))

\* round(r, k): to the nearest multiple of 10^-k, ties to the even one
Round(r, k) ==
    Rat((IF r.n < 0 THEN 0 - 1 ELSE 1) * RoundAbs(AbsInt(r.n), r.d, k), Pow10(k))

\* ------------------------------------------------------ app/calculator.py

SAFE == "Safe Zone"
GREY == "Grey Zone"
DISTRESS == "Distress Zone"

ZeroDivisionError == [raised |-> "ZeroDivisionError"]

\* a / b of two floats
Divide(a, b) == IF b = 0 THEN ZeroDivisionError ELSE Rat(a, b)

\* a ratio computed without the guard on its denominator
RatioUnguarded(num, den) == Divide(num, den)

\* lines 48-52: num / den if den != 0 else 0.0
Ratio(num, den) == IF den # 0 THEN Divide(num, den) ELSE RatZero

\* line 55
ZScore(x) ==
    RatAdd(RatMul(Rat(12, 10), x[1]),
    RatAdd(RatMul(Rat(14, 10), x[2]),
    RatAdd(RatMul(Rat(33, 10), x[3]),
    RatAdd(RatMul(Rat(6, 10), x[4]),
           RatMul(Rat(10, 10), x[5])))))

\* a classification whose comparisons are not strict
ZoneOfNonStrict(z) ==
    IF ~RatGt(Rat(299, 100), z) THEN SAFE
    ELSE IF ~RatGt(Rat(181, 100), z) THEN GREY
    ELSE DISTRESS

\* a classification of the score as returned, rounded to 4 decimals
ZoneOfRounded(z) ==
    IF RatGt(Round(z, 4), Rat(299, 100)) THEN SAFE
    ELSE IF RatGt(Round(z, 4), Rat(181, 100)) THEN GREY
    ELSE DISTRESS

\* lines 58-63
ZoneOf(z) ==
    IF RatGt(z, Rat(299, 100)) THEN SAFE
    ELSE IF RatGt(z, Rat(181, 100)) THEN GREY
    ELSE DISTRESS

\* the arguments explored
WorkingCapitals == {0 - 100, 0, 50}
TotalAssets == {0, 100}
RetainedEarnings == {0, 40}
OperatingIncomes == {0, 30}
MarketValues == {0, 299, 300}
TotalLiabilities == {0, 60}
Sales == {0, 181, 182, 299, 300}

CalcArgs ==
    [working_capital : WorkingCapitals, total_assets : TotalAssets,
     retained_earnings : RetainedEarnings, operating_income : OperatingIncomes,
     market_value_equity : MarketValues, total_liabilities : TotalLiabilities,
     sales : Sales]

NoArgs == [none |-> TRUE]

CalcIdle ==
    /\ calc_args = NoArgs
    /\ calc_x = <<>>
    /\ calc_z = RatZero
    /\ calc_pc = "idle"
    /\ calc_ret = None

\* lines 48-52
Ratios(a) ==
    << Ratio(a.working_capital, a.total_assets),
       Ratio(a.retained_earnings, a.total_assets),
       Ratio(a.operating_income, a.total_assets),
       Ratio(a.market_value_equity, a.total_liabilities),
       Ratio(a.sales, a.total_assets) >>

\* lines 47-55: the five ratios and the score
ComputeRatios ==
    /\ calc_pc = "call"
    /\ \E x \in { Ratios(calc_args) } :
         IF \E i \in 1..5 : x[i] = ZeroDivisionError
         THEN /\ calc_pc' = "raised"
              /\ UNCHANGED <<calc_x, calc_z>>
         ELSE /\ calc_x' = x
              /\ calc_z' = ZScore(x)
              /\ calc_pc' = "classify"
    /\ UNCHANGED <<calc_args, calc_ret, exVars, resVars, envVars, reqVars, locVars>>

\* lines 57-80: the dict a call returns
ResultOf(a, x, z) ==
    [z_score |-> Round(z, 4),
     x1 |-> Round(x[1], 6), x2 |-> Round(x[2], 6), x3 |-> Round(x[3], 6),
     x4 |-> Round(x[4], 6), x5 |-> Round(x[5], 6),
     zone |-> ZoneOf(z),
     working_capital |-> a.working_capital,
     total_assets |-> a.total_assets,
     retained_earnings |-> a.retained_earnings,
     operating_income |-> a.operating_income,
     market_value_equity |-> a.market_value_equity,
     total_liabilities |-> a.total_liabilities,
     sales |-> a.sales]

\* lines 57-80: the zone and the returned dict
ClassifyAndReturn ==
    /\ calc_pc = "classify"
    /\ calc_ret' = ResultOf(calc_args, calc_x, calc_z)
    /\ calc_pc' = "done"
    /\ UNCHANGED <<calc_args, calc_x, calc_z, exVars, resVars, envVars, reqVars, locVars>>

ExIdle ==
    /\ html_content = <<>>
    /\ text_lower = <<>>
    /\ financial_data = EmptyDict
    /\ key_idx = 1
    /\ ex_pc = "idle"
    /\ ex_result = None

InitCalc ==
    /\ calc_args \in CalcArgs
    /\ calc_x = <<>>
    /\ calc_z = RatZero
    /\ calc_pc = "call"
    /\ calc_ret = None
    /\ ExIdle
    /\ ResIdle
    /\ HandlerIdle
    /\ LocIdle

NextCalc == ComputeRatios \/ ClassifyAndReturn

SpecCalc == InitCalc /\ [][NextCalc]_vars

\* arguments whose score lies within a few 1/100000 of a threshold: with
\* total_assets = 100000 and the other numerators 0 the score is
\* sales / 100000.  Scores that end in 5 at the fifth decimal are left out:
\* they are ties of the rounding in exact arithmetic and not in binary.
NearThreshold == 10

FineSales ==
    { s \in (299000 - NearThreshold)..(299000 + NearThreshold) : s % 10 # 5 }
    \cup
    { s \in (181000 - NearThreshold)..(181000 + NearThreshold) : s % 10 # 5 }

FineArgs ==
    [working_capital : {0}, total_assets : {100000}, retained_earnings : {0},
     operating_income : {0}, market_value_equity : {0}, total_liabilities : {0, 60},
     sales : FineSales]

InitCalcFine ==
    /\ calc_args \in FineArgs
    /\ calc_x = <<>>
    /\ calc_z = RatZero
    /\ calc_pc = "call"
    /\ calc_ret = None
    /\ ExIdle
    /\ ResIdle
    /\ HandlerIdle
    /\ LocIdle

SpecCalcFine == InitCalcFine /\ [][NextCalc]_vars

\* ------------------------------------- extract_financial_data_from_html

InitExtract ==
    /\ html_content \in Filings
    /\ text_lower = <<>>
    /\ financial_data = EmptyDict
    /\ key_idx = 1
    /\ ex_pc = "start"
    /\ ex_result = None
    /\ CalcIdle
    /\ ResIdle
    /\ HandlerIdle
    /\ LocIdle

\* lines 140-144
GetTextLower ==
    /\ ex_pc = "start"
    /\ text_lower' = LowerText(GetText(html_content))
    /\ financial_data' = EmptyDict
    /\ key_idx' = 1
    /\ ex_pc' = "loop"
    /\ UNCHANGED <<html_content, ex_result, calcVars,
                   resVars, envVars, reqVars, locVars>>

\* lines 180-201: one round of the loop over patterns.items()
ExtractNextKey ==
    /\ ex_pc = "loop"
    /\ key_idx <= Len(Keys)
    /\ financial_data' = Store(financial_data, Keys[key_idx],
                               ExtractKey(text_lower, Keys[key_idx]))
    /\ key_idx' = key_idx + 1
    /\ ex_pc' = IF key_idx = Len(Keys) THEN "validate" ELSE "loop"
    /\ UNCHANGED <<html_content, text_lower, ex_result, calcVars,
                   resVars, envVars, reqVars, locVars>>

\* lines 203-214
ValidateAndReturn ==
    /\ ex_pc = "validate"
    /\ ex_result' = Validate(financial_data)
    /\ ex_pc' = "done"
    /\ UNCHANGED <<html_content, text_lower, financial_data, key_idx, calcVars,
                   resVars, envVars, reqVars, locVars>>

NextExtract == GetTextLower \/ ExtractNextKey \/ ValidateAndReturn

SpecExtract == InitExtract /\ [][NextExtract]_vars

\* ------------------------------------------- app/utils.py: get_cik_and_ticker

\* A string is a sequence of characters.

\* str.upper() and str.lower() on a character
UpperChar(c) == CASE c = "a" -> "A" [] c = "b" -> "B" [] OTHER -> c

LowerChar(c) == CASE c = "A" -> "a" [] c = "B" -> "b" [] OTHER -> c

upper(s) == [i \in 1..Len(s) |-> UpperChar(s[i])]

lower(s) == [i \in 1..Len(s) |-> LowerChar(s[i])]

\* sub in s
Contains(sub, s) ==
    \E i \in 0..(Len(s) - Len(sub)) : SubSeq(s, i + 1, i + Len(sub)) = sub

DigitChar(d) == CHOOSE c \in Digits : DigitVal(c) = d

\* str(n) for n >= 0
RECURSIVE Str(_)
Str(n) == IF n < 10 THEN <<DigitChar(n)>> ELSE Str(n \div 10) \o <<DigitChar(n % 10)>>

\* s.zfill(width)
RECURSIVE zfill(_, _)
zfill(s, width) == IF Len(s) >= width THEN s ELSE zfill(<<"0">> \o s, width)

\* line 140: ticker == company_identifier_upper
TickerMatches(entry, company_identifier_upper) ==
    upper(entry.ticker) = company_identifier_upper

\* line 147
NameMatches(entry, company_identifier_lower) ==
    \/ Contains(company_identifier_lower, lower(entry.title))
    \/ Contains(lower(entry.title), company_identifier_lower)

\* lines 141-144, 148-151: the dict returned for an entry
EntryResult(entry) ==
    [cik |-> zfill(Str(entry.cik_str), 10), ticker |-> upper(entry.ticker)]

\* lines 135-155: the loop over data.values() from entry i on
RECURSIVE ScanEntries(_, _, _, _)
ScanEntries(data, i, company_identifier_upper, company_identifier_lower) ==
    IF i > Len(data) THEN None
    ELSE IF \/ TickerMatches(data[i], company_identifier_upper)
            \/ NameMatches(data[i], company_identifier_lower)
    THEN EntryResult(data[i])
    ELSE ScanEntries(data, i + 1, company_identifier_upper, company_identifier_lower)

\* get_cik_and_ticker as one function of its argument and of what the request
\* for the directory gives
get_cik_and_ticker(identifier, fetched) ==
    IF fetched.status # "ok" THEN None
    ELSE ScanEntries(fetched.body, 1, Strip(upper(identifier)), Strip(lower(identifier)))

\* the directories and identifiers explored
MaxEntries == 2
MaxIdLen == 2

IdChars == {"a", "A", "b", " "}

DirTickers == { <<"A">>, <<"a", "b">>, <<"B">> }

DirTitles == { <<>>, <<"a">>, <<"A", " ", "b">>, <<"b">> }

DirCiks == {7, 42}

DirEntries == [ticker : DirTickers, title : DirTitles, cik_str : DirCiks]

SeqsUpTo(S, n) == UNION { [1..k -> S] : k \in 0..n }

InitResolve ==
    /\ company_identifier \in SeqsUpTo(IdChars, MaxIdLen)
    /\ tickers_json \in {FetchError} \cup
                        { Fetched(d) : d \in SeqsUpTo(DirEntries, MaxEntries) }
    /\ entry_idx = 1
    /\ res_pc = "call"
    /\ res_result = None
    /\ ExIdle
    /\ CalcIdle
    /\ HandlerIdle
    /\ LocIdle

\* lines 123-133, 158-160: the request; a failure is caught and None returned
FetchDirectory ==
    /\ res_pc = "call"
    /\ IF tickers_json.status = "ok"
       THEN /\ res_pc' = "loop"
            /\ UNCHANGED res_result
       ELSE /\ res_pc' = "done"
            /\ res_result' = None
    /\ entry_idx' = 1
    /\ UNCHANGED <<company_identifier, tickers_json, exVars, calcVars, envVars, reqVars, locVars>>

\* lines 135-155: one round of the loop over data.values()
VisitEntry ==
    /\ res_pc = "loop"
    /\ entry_idx <= Len(tickers_json.body)
    /\ IF \/ TickerMatches(tickers_json.body[entry_idx],
                           Strip(upper(company_identifier)))
          \/ NameMatches(tickers_json.body[entry_idx],
                         Strip(lower(company_identifier)))
       THEN /\ res_result' = EntryResult(tickers_json.body[entry_idx])
            /\ res_pc' = "done"
            /\ UNCHANGED entry_idx
       ELSE /\ entry_idx' = entry_idx + 1
            /\ UNCHANGED <<res_result, res_pc>>
    /\ UNCHANGED <<company_identifier, tickers_json, exVars, calcVars, envVars, reqVars, locVars>>

\* line 157: the loop ran out of entries
ReturnNotFound ==
    /\ res_pc = "loop"
    /\ entry_idx > Len(tickers_json.body)
    /\ res_result' = None
    /\ res_pc' = "done"
    /\ UNCHANGED <<company_identifier, tickers_json, entry_idx,
                   exVars, calcVars, envVars, reqVars, locVars>>

NextResolve == FetchDirectory \/ VisitEntry \/ ReturnNotFound

SpecResolve == InitResolve /\ [][NextResolve]_vars

\* ------------------------------------ app/sec_client.py: the filing locator

\* lines 49-58: the scan over forms from index i down to the first one
RECURSIVE ScanForms(_, _, _)
FilingAt(recent, i, padded) ==
    [form |-> recent.form[i],
     filingDate |-> recent.filingDate[i],
     accessionNumber |-> RemoveAll(recent.accessionNumber[i], {"-"}),
     cik |-> padded]

ScanForms(recent, i, padded) ==
    IF i < 1 THEN None
    ELSE IF recent.form[i] = "10-Q" THEN FilingAt(recent, i, padded)
    ELSE ScanForms(recent, i - 1, padded)

\* get_latest_10q_filing, given what the request for the submissions gives
get_latest_10q_filing(cik_arg, fetched) ==
    IF fetched.status # "ok" THEN None
    ELSE ScanForms(fetched.body, Len(fetched.body.form), zfill(cik_arg, 10))

\* lines 257-261
WithFiling(data, found) ==
    IF data = None THEN None
    ELSE data @@ [k \in {"filing_date"} |-> found.filingDate]
              @@ [k \in {"accession_number"} |-> found.accessionNumber]

\* lines 236-261: get_filing_document_url always gives a URL; the request
\* for the document either raises, which is caught, or gives its text
FromFiling(found, document) ==
    IF found = None THEN None
    ELSE IF document.status # "ok" THEN None
    ELSE WithFiling(extract_financial_data_from_html(document.body), found)

get_financial_data_from_10q(cik_arg, submissions, document) ==
    FromFiling(get_latest_10q_filing(cik_arg, submissions), document)

\* ------------------------------------------- app/stock_client.py

\* get_stock_data, given what lines 19-31 arrive at: an exception, or a
\* price and a number of shares, each possibly None
get_stock_data(info) ==
    IF info.status # "ok" THEN None
    ELSE IF info.body.price = None \/ info.body.shares_outstanding = None THEN None
    ELSE [price |-> info.body.price.value,
          shares_outstanding |-> info.body.shares_outstanding.value,
          market_value_equity |->
              info.body.price.value * info.body.shares_outstanding.value]

\* --------------------------------------------- app/main.py: get_zscore

\* the float v as an integer; the filings of the requests hold whole numbers
Number(v) == v.m * Pow10(v.e)

\* lines 70-71
handler_required_fields ==
    <<"working_capital", "total_assets", "retained_earnings",
      "operating_income", "total_liabilities", "sales">>

\* line 72
missing_fields(data) ==
    SelectSeq(handler_required_fields, LAMBDA field : field \notin DOMAIN data)

\* a test that takes None for a value
NotEmpty(x) == x = EmptyDict

\* "if not x" for a dict or None
Not(x) == x = None \/ x = EmptyDict

\* lines 90-98: the arguments of the call
ArgsOf(data, stock) ==
    [working_capital |-> Number(data["working_capital"]),
     total_assets |-> Number(data["total_assets"]),
     retained_earnings |-> Number(data["retained_earnings"]),
     operating_income |-> Number(data["operating_income"]),
     market_value_equity |-> stock.market_value_equity,
     total_liabilities |-> Number(data["total_liabilities"]),
     sales |-> Number(data["sales"])]

\* calculate_altman_z_score as one function of its arguments
Calculated(a, x) ==
    IF \E i \in 1..5 : x[i] = ZeroDivisionError THEN ZeroDivisionError
    ELSE ResultOf(a, x, ZScore(x))

calculate_altman_z_score(a) == Calculated(a, Ratios(a))

\* lines 106-126; the model validates: filing_date is a string or the
\* construction raises
ZScoreResponse(name, ticker, result, data, stock) ==
    IF data["filing_date"].type # "str" THEN [raised |-> "ValidationError"]
    ELSE [company |-> name, ticker |-> ticker,
          z_score |-> result.z_score, zone |-> result.zone,
          x1 |-> result.x1, x2 |-> result.x2, x3 |-> result.x3,
          x4 |-> result.x4, x5 |-> result.x5,
          working_capital |-> result.working_capital,
          total_assets |-> result.total_assets,
          retained_earnings |-> result.retained_earnings,
          operating_income |-> result.operating_income,
          market_value_equity |-> result.market_value_equity,
          total_liabilities |-> result.total_liabilities,
          sales |-> result.sales,
          filing_date |-> data["filing_date"].value,
          stock_price |-> stock.price,
          shares_outstanding |-> stock.shares_outstanding]

\* raise HTTPException(status_code, detail): the answer of the request
Raise(code, message, names) ==
    /\ status_code' = code
    /\ detail' = [message |-> message, names |-> names]
    /\ h_pc' = "done"

\* the worlds explored

Str10(day) == [type |-> "str", value |-> day]

\* a filing date that the submissions give as a number
Int10(day) == [type |-> "int", value |-> day]

Accession(n) == <<"0001", "-", "24", "-", n>>

Histories ==
    { [form |-> <<>>, filingDate |-> <<>>, accessionNumber |-> <<>>],
      [form |-> <<"10-K">>, filingDate |-> <<Str10(1)>>,
       accessionNumber |-> <<Accession("1")>>],
      [form |-> <<"10-Q", "10-K">>, filingDate |-> <<Str10(2), Str10(1)>>,
       accessionNumber |-> <<Accession("2"), Accession("1")>>],
      [form |-> <<"10-Q", "8-K", "10-Q">>,
       filingDate |-> <<Str10(3), Str10(2), Str10(1)>>,
       accessionNumber |-> <<Accession("3"), Accession("2"), Accession("1")>>],
      [form |-> <<"8-K", "10-Q">>, filingDate |-> <<Str10(2), Int10(1)>>,
       accessionNumber |-> <<Accession("2"), Accession("1")>>] }

\* a filing with the lines of slots i..7: no line for the keys dropped, the
\* number 0 on the line of the keys zeroed, the default line otherwise
RECURSIVE DocumentFrom(_, _, _)
DocumentFrom(i, dropped, zeroed) ==
    IF i > Len(Keys) THEN <<>>
    ELSE ( IF Keys[i] \in dropped THEN <<>>
           ELSE IF Keys[i] \in zeroed THEN LineOf(Keys[i], <<" ", "0">>)
           ELSE DefaultLine(Keys[i]) )
         \o <<"\n">> \o DocumentFrom(i + 1, dropped, zeroed)

Dropped ==
    { {} } \cup { {k} : k \in required_fields }
           \cup { {"total_assets", "sales"}, required_fields }

Zeroed == { {}, {"total_assets"}, {"total_liabilities"} }

Documents == { DocumentFrom(1, d, z) : d \in Dropped, z \in Zeroed }

HandlerDirectory == << [ticker |-> <<"A">>, title |-> <<"a", " ", "b">>, cik_str |-> 7] >>

Companies == { <<"a">>, <<"b", "b">> }

Quotes ==
    { FetchError,
      Fetched([price |-> None, shares_outstanding |-> [value |-> 4]]),
      Fetched([price |-> [value |-> 3], shares_outstanding |-> None]),
      Fetched([price |-> [value |-> 3], shares_outstanding |-> [value |-> 4]]) }

InitHandler ==
    /\ company \in Companies
    /\ sec \in [tickers : {FetchError, Fetched(HandlerDirectory)},
                submissions : {FetchError} \cup { Fetched(h) : h \in Histories },
                document : {FetchError} \cup { Fetched(d) : d \in Documents }]
    /\ yf_info \in Quotes
    /\ h_pc = "resolve"
    /\ cik_ticker_info = None
    /\ fin_data = None
    /\ stock_data = None
    /\ zscore_result = None
    /\ status_code = 0
    /\ detail = None
    /\ response = None
    /\ calls = <<>>
    /\ ExIdle
    /\ CalcIdle
    /\ ResIdle
    /\ LocIdle

\* lines 51-59
ResolveCompany ==
    /\ h_pc = "resolve"
    /\ calls' = Append(calls, "get_cik_and_ticker")
    /\ cik_ticker_info' = get_cik_and_ticker(company, sec.tickers)
    /\ IF Not(cik_ticker_info')
       THEN Raise(404, "Company not found", <<company>>)
       ELSE /\ h_pc' = "financial"
            /\ UNCHANGED <<status_code, detail>>
    /\ UNCHANGED <<fin_data, stock_data, zscore_result, response,
                   envVars, exVars, calcVars, resVars, locVars>>

\* lines 62-77
GetFinancialData ==
    /\ h_pc = "financial"
    /\ calls' = Append(calls, "get_financial_data_from_10q")
    /\ fin_data' = get_financial_data_from_10q(cik_ticker_info.cik,
                                               sec.submissions, sec.document)
    /\ IF Not(fin_data')
       THEN Raise(404, "Could not retrieve 10-Q filing data", <<company>>)
       ELSE IF missing_fields(fin_data') # <<>>
       THEN Raise(500, "Missing required financial data fields",
                  missing_fields(fin_data'))
       ELSE /\ h_pc' = "stock"
            /\ UNCHANGED <<status_code, detail>>
    /\ UNCHANGED <<cik_ticker_info, stock_data, zscore_result, response,
                   envVars, exVars, calcVars, resVars, locVars>>

\* lines 80-86
GetStockData ==
    /\ h_pc = "stock"
    /\ calls' = Append(calls, "get_stock_data")
    /\ stock_data' = get_stock_data(yf_info)
    /\ IF Not(stock_data')
       THEN Raise(404, "Could not retrieve stock price data",
                  <<cik_ticker_info.ticker>>)
       ELSE /\ h_pc' = "calculate"
            /\ UNCHANGED <<status_code, detail>>
    /\ UNCHANGED <<cik_ticker_info, fin_data, zscore_result, response,
                   envVars, exVars, calcVars, resVars, locVars>>

\* lines 89-103
CalculateZScore ==
    /\ h_pc = "calculate"
    /\ calls' = Append(calls, "calculate_altman_z_score")
    /\ \E result \in { calculate_altman_z_score(ArgsOf(fin_data, stock_data)) } :
         IF result = ZeroDivisionError
         THEN /\ Raise(500, "Error calculating Z-Score", <<>>)
              /\ UNCHANGED zscore_result
         ELSE /\ zscore_result' = result
              /\ h_pc' = "respond"
              /\ UNCHANGED <<status_code, detail>>
    /\ UNCHANGED <<cik_ticker_info, fin_data, stock_data, response,
                   envVars, exVars, calcVars, resVars, locVars>>

\* lines 106-128, 132-138
BuildResponse ==
    /\ h_pc = "respond"
    /\ \E built \in { ZScoreResponse(company, cik_ticker_info.ticker,
                                     zscore_result, fin_data, stock_data) } :
         IF "raised" \in DOMAIN built
         THEN /\ Raise(500, "Internal server error", <<>>)
              /\ UNCHANGED response
         ELSE /\ response' = built
              /\ status_code' = 200
              /\ h_pc' = "done"
              /\ UNCHANGED detail
    /\ UNCHANGED <<cik_ticker_info, fin_data, stock_data, zscore_result, calls,
                   envVars, exVars, calcVars, resVars, locVars>>

NextHandler ==
    \/ ResolveCompany
    \/ GetFinancialData
    \/ GetStockData
    \/ CalculateZScore
    \/ BuildResponse

SpecHandler == InitHandler /\ [][NextHandler]_vars

\* ----------------------------- app/sec_client.py: get_latest_10q_filing

\* filings in the longest history explored
MaxFilings == 3

Forms == {"10-Q", "10-K", "8-K"}

\* The parallel lists of filings.recent for a list of forms, one filing a
\* day.  The submissions list the newest filing first; a list with the
\* oldest filing first is explored as well.
RecentOf(forms, newest_first) ==
    [form |-> forms,
     filingDate |-> [i \in 1..Len(forms) |->
                        Str10(IF newest_first THEN Len(forms) + 1 - i ELSE i)],
     accessionNumber |-> [i \in 1..Len(forms) |->
                        Accession(DigitChar(IF newest_first
                                            THEN Len(forms) + 1 - i ELSE i))]]

Submissions ==
    { RecentOf(forms, order) : forms \in SeqsUpTo(Forms, MaxFilings),
                               order \in BOOLEAN }

Ciks == { <<"7">>, <<"0", "0", "0", "0", "3", "2", "0", "1", "9", "3">> }

InitLocate ==
    /\ cik \in Ciks
    /\ submissions_json \in {FetchError} \cup { Fetched(r) : r \in Submissions }
    /\ form_idx = 0
    /\ loc_pc = "call"
    /\ filing = None
    /\ ExIdle
    /\ CalcIdle
    /\ ResIdle
    /\ HandlerIdle

\* lines 33-46, 59-61: the request; a failure is caught and None returned
FetchSubmissions ==
    /\ loc_pc = "call"
    /\ cik' = zfill(cik, 10)
    /\ IF submissions_json.status = "ok"
       THEN /\ form_idx' = Len(submissions_json.body.form)
            /\ loc_pc' = "loop"
       ELSE /\ form_idx' = 0
            /\ loc_pc' = "done"
    /\ filing' = None
    /\ UNCHANGED <<submissions_json, exVars, calcVars, resVars, envVars, reqVars>>

\* lines 49-56: one round of the loop, i running from len(forms) - 1 down
VisitForm ==
    /\ loc_pc = "loop"
    /\ form_idx >= 1
    /\ IF submissions_json.body.form[form_idx] = "10-Q"
       THEN /\ filing' = FilingAt(submissions_json.body, form_idx, cik)
            /\ loc_pc' = "done"
            /\ UNCHANGED form_idx
       ELSE /\ form_idx' = form_idx - 1
            /\ UNCHANGED <<filing, loc_pc>>
    /\ UNCHANGED <<cik, submissions_json, exVars, calcVars, resVars, envVars, reqVars>>

\* line 58: the loop ran out of forms
ReturnNoFiling ==
    /\ loc_pc = "loop"
    /\ form_idx < 1
    /\ filing' = None
    /\ loc_pc' = "done"
    /\ UNCHANGED <<cik, submissions_json, form_idx,
                   exVars, calcVars, resVars, envVars, reqVars>>

NextLocate == FetchSubmissions \/ VisitForm \/ ReturnNoFiling

SpecLocate == InitLocate /\ [][NextLocate]_vars

\* ------------------------------------------------ claims on the extractor

\* the matches of variant v of a key whose numeric literal parses
ParsableMatches(text, key, v) ==
    LET ms == finditer(patterns[key][v], text)
    IN  { ms[i] : i \in { n \in 1..Len(ms) : parse_number(ms[n].group) # None } }

\* the first variant of a key, in list order, for which P holds; 0 when none
FirstVariant(key, P(_)) ==
    LET good == { v \in 1..Len(patterns[key]) : P(v) }
    IN  IF good = {} THEN 0 ELSE CHOOSE v \in good : \A w \in good : v <= w

FirstMatchingVariant(text, key) ==
    FirstVariant(key, LAMBDA v : finditer(patterns[key][v], text) # <<>>)

FirstParsableVariant(text, key) ==
    FirstVariant(key, LAMBDA v : ParsableMatches(text, key, v) # {})

\* the multiplier of the scale word found anywhere in the match text
ScaleInMatch(text, m) ==
    LET mt == MatchText(text, m)
    IN  IF ContainsWord(mt, "million") THEN 6
        ELSE IF ContainsWord(mt, "thousand") THEN 3
        ELSE IF ContainsWord(mt, "billion") THEN 9
        ELSE 0

\* the multiplier of the scale word that trails the numeric literal
ScaleTrailing(m) ==
    CASE m.scale = "million" -> 6
      [] m.scale = "thousand" -> 3
      [] m.scale = "billion" -> 9
      [] OTHER -> 0

\* x is the largest element of the set S of values >= 0
IsMaxOf(x, S) == x \in S /\ \A y \in S : ~DecLess(x, y)

\* the candidates of variant v: magnitude of the literal times the scale in
\* the match text
Candidates(text, key, v) ==
    { DecAbs(DecScale(parse_number(m.group), ScaleInMatch(text, m))) :
        m \in ParsableMatches(text, key, v) }

\* the candidates of variant v with the scale taken from the trailing word only
CandidatesTrailing(text, key, v) ==
    { DecAbs(DecScale(parse_number(m.group), ScaleTrailing(m))) :
        m \in ParsableMatches(text, key, v) }

Done == ex_pc = "done"

\* C1: the result is None or holds all seven base fields, and it is None as
\* soon as one of the seven has no usable match (no match of any variant
\* whose literal parses) in the text.
C1_AllOrNothing ==
    Done =>
      /\ ex_result = None \/ required_fields \subseteq DOMAIN ex_result
      /\ (\E key \in required_fields : FirstParsableVariant(text_lower, key) = 0)
            => ex_result = None

\* C1 witness: six fields were found, one was not, and the result is None.
C1_Witness ==
    /\ Done
    /\ ex_result = None
    /\ Cardinality(DOMAIN financial_data) = 6

\* "Total current assets $1,234,567", "Total current liabilities $(234,567)"
\* and the other five labels
C2Filing ==
    LineOf("current_assets",
           <<" ", "$", "1", ",", "2", "3", "4", ",", "5", "6", "7">>) \o <<"\n">>
    \o LineOf("current_liabilities",
              <<" ", "$", "(", "2", "3", "4", ",", "5", "6", "7", ")">>) \o <<"\n">>
    \o DefaultLine("total_assets") \o <<"\n">>
    \o DefaultLine("retained_earnings") \o <<"\n">>
    \o DefaultLine("operating_income") \o <<"\n">>
    \o DefaultLine("total_liabilities") \o <<"\n">>
    \o DefaultLine("sales") \o <<"\n">>

\* C2: a literal in parentheses after the label and the currency marker is a
\* candidate and gives its magnitude: the example filing yields
\* current_assets = 1234567, current_liabilities = 234567 and
\* working_capital = 1000000.
C2_ParenthesizedAccepted ==
    (Done /\ html_content = C2Filing) =>
      /\ ex_result # None
      /\ ex_result["current_assets"] = DecInt(1234567)
      /\ ex_result["current_liabilities"] = DecInt(234567)
      /\ ex_result["working_capital"] = DecInt(1000000)

\* C3 as claimed: the value of a field is the maximum over the matches of the
\* first variant that produced at least one match.
C3_FirstMatchingVariantMax ==
    Done =>
      \A key \in DOMAIN financial_data :
        LET v == FirstMatchingVariant(text_lower, key)
        IN  v # 0 /\ IsMaxOf(financial_data[key], Candidates(text_lower, key, v))

\* C3 as amended: the value of a field is the maximum over the parsable
\* matches of the first variant that produced at least one match whose
\* literal parses; a field has no value exactly when there is no such variant.
C3_FirstParsableVariantMax ==
    Done =>
      \A key \in required_fields :
        LET v == FirstParsableVariant(text_lower, key)
        IN  IF v = 0 THEN key \notin DOMAIN financial_data
            ELSE /\ key \in DOMAIN financial_data
                 /\ IsMaxOf(financial_data[key], Candidates(text_lower, key, v))

\* C3 witness: a field whose first matching variant gave only unparsable
\* literals took its value from a later variant.
C3_Witness ==
    /\ Done
    /\ \E key \in DOMAIN financial_data :
         FirstMatchingVariant(text_lower, key) < FirstParsableVariant(text_lower, key)

\* C4: the multiplier of a match is that of the scale word trailing the
\* numeric literal, and 1 when no scale word trails it.
C4_TrailingScaleOnly ==
    Done =>
      \A key \in DOMAIN financial_data :
        IsMaxOf(financial_data[key],
                CandidatesTrailing(text_lower, key,
                                   FirstParsableVariant(text_lower, key)))

\* the exponents of a, b, c brought to the smallest of the three
Aligned(v, a, b, c) ==
    LET e0 == CHOOSE e \in {a.e, b.e, c.e} : \A f \in {a.e, b.e, c.e} : e <= f
    IN  v.m * Pow10(v.e - e0)

\* C5: a returned mapping holds working_capital, and it is current_assets
\* minus current_liabilities of that mapping.
C5_WorkingCapital ==
    (Done /\ ex_result # None) =>
      /\ "working_capital" \in DOMAIN ex_result
      /\ LET wc == ex_result["working_capital"]
             ca == ex_result["current_assets"]
             cl == ex_result["current_liabilities"]
         IN  Aligned(wc, wc, ca, cl) = Aligned(ca, wc, ca, cl) - Aligned(cl, wc, ca, cl)

\* C5 witness: a mapping was returned whose working capital is negative.
C5_Witness ==
    /\ Done
    /\ ex_result # None
    /\ ex_result["working_capital"].m < 0

\* the value a parsable match stands for
ValueOf(text, m) == DecAbs(DecScale(parse_number(m.group), ScaleInMatch(text, m)))

\* the positions, among the matches ms of a variant, of the literals that
\* fail to parse
Unparsable(ms) == { i \in 1..Len(ms) : parse_number(ms[i].group) = None }

\* variant v of the key is the one its value is taken from, and an
\* unparsable match of v is followed by a parsable one
DroppedThenKept(text, key, v) ==
    /\ v = FirstParsableVariant(text, key)
    /\ \E i \in Unparsable(finditer(patterns[key][v], text)) :
         \E n \in (i + 1)..Len(finditer(patterns[key][v], text)) :
            n \notin Unparsable(finditer(patterns[key][v], text))

\* C13: a match whose literal fails to parse adds no candidate and does not
\* end the run: the field still gets a value that no parsable match of the
\* same variant exceeds, matches after the unparsable one included; the run
\* ends with a dict or None for every text, and with None for a text that is
\* empty or holds no parsable match at all.
C13_UnparsableDropped ==
    Done =>
      /\ ex_result = None \/ ex_result = Validate(financial_data)
      /\ \A key \in required_fields :
           \A v \in 1..Len(patterns[key]) :
             ( /\ v = FirstParsableVariant(text_lower, key)
               /\ Unparsable(finditer(patterns[key][v], text_lower)) # {} )
             => /\ key \in DOMAIN financial_data
                /\ \A m \in ParsableMatches(text_lower, key, v) :
                      ~DecLess(financial_data[key], ValueOf(text_lower, m))
      /\ (\A key \in required_fields : FirstParsableVariant(text_lower, key) = 0)
            => financial_data = EmptyDict /\ ex_result = None
      /\ text_lower = <<>> => ex_result = None

\* C13 witness: the variant a field took its value from had an unparsable
\* match followed by a parsable one, and the field has the value.
C13_Witness ==
    /\ Done
    /\ \E key \in DOMAIN financial_data :
         \E v \in 1..Len(patterns[key]) :
            DroppedThenKept(text_lower, key, v)

\* ----------------------------------------------- claims on the calculator

Zones == {SAFE, GREY, DISTRESS}

CalcDone == calc_pc = "done"

LCM(a, b) == (a \div GCD(a, b)) * b

\* 10 * z = 12 * x1 + 14 * x2 + 33 * x3 + 6 * x4 + 10 * x5, in integers
IsWeightedSum(z, x) ==
    LET D == LCM(LCM(LCM(x[1].d, x[2].d), LCM(x[3].d, x[4].d)), x[5].d)
        part(i) == x[i].n * (D \div x[i].d)
    IN  10 * z.n * D =
          z.d * (12 * part(1) + 14 * part(2) + 33 * part(3) + 6 * part(4) + 10 * part(5))

\* C6: the zone is Safe exactly when z > 2.99, Grey exactly when
\* 1.81 < z <= 2.99 and Distress exactly when z <= 1.81, for
\* z = 1.2*x1 + 1.4*x2 + 3.3*x3 + 0.6*x4 + 1.0*x5; so 2.99 is Grey, 1.81 is
\* Distress, and one of the three zones is always returned.
C6_ZoneThresholds ==
    CalcDone =>
      LET z == calc_z
          zone == calc_ret.zone
      IN  /\ IsWeightedSum(z, calc_x)
          /\ zone \in Zones
          /\ zone = SAFE <=> 100 * z.n > 299 * z.d
          /\ zone = GREY <=> (100 * z.n > 181 * z.d /\ 100 * z.n <= 299 * z.d)
          /\ zone = DISTRESS <=> 100 * z.n <= 181 * z.d

\* C6 witness: a call whose score is exactly 2.99 returned Grey.
C6_Witness ==
    /\ CalcDone
    /\ calc_z = [n |-> 299, d |-> 100]
    /\ calc_ret.zone = GREY

\* C7: no call faults on a zero denominator; with total_assets = 0 the
\* ratios x1, x2, x3, x5 are 0, with total_liabilities = 0 the ratio x4 is 0,
\* and a result with a zone is returned.
C7_ZeroDenominators ==
    /\ calc_pc # "raised"
    /\ CalcDone =>
         /\ calc_ret.zone \in Zones
         /\ calc_args.total_assets = 0 =>
              /\ \A i \in {1, 2, 3, 5} : calc_x[i].n = 0
              /\ calc_ret.x1.n = 0 /\ calc_ret.x2.n = 0
              /\ calc_ret.x3.n = 0 /\ calc_ret.x5.n = 0
         /\ calc_args.total_liabilities = 0 =>
              calc_x[4].n = 0 /\ calc_ret.x4.n = 0

\* C7 witness: a call with both denominators zero and non-zero numerators
\* returned a zone.
C7_Witness ==
    /\ CalcDone
    /\ calc_args.total_assets = 0
    /\ calc_args.total_liabilities = 0
    /\ calc_args.sales # 0
    /\ calc_args.market_value_equity # 0
    /\ calc_ret.zone = DISTRESS

\* the score in units of 1/10000, for a score that is a multiple of it
Units(zr) == zr.n * (10000 \div zr.d)

\* floor(z * 10000) for z >= 0
Floor4(z) == (z.n \div z.d) * 10000 + Decimals(z.n % z.d, z.d, 4).val

\* C14 as claimed: the returned zone is the zone of the returned, rounded
\* z_score: Safe iff z_score > 2.99, Grey iff 1.81 < z_score <= 2.99,
\* Distress iff z_score <= 1.81.
C14_ZoneAgreesWithRounded ==
    CalcDone =>
      /\ calc_ret.zone = SAFE <=> Units(calc_ret.z_score) > 29900
      /\ calc_ret.zone = GREY <=> ( /\ Units(calc_ret.z_score) > 18100
                                    /\ Units(calc_ret.z_score) <= 29900 )
      /\ calc_ret.zone = DISTRESS <=> Units(calc_ret.z_score) <= 18100

\* C14 as amended: the zone is that of the score at full precision; the
\* returned z_score is that score to the nearest 1/10000, so a z_score above
\* a threshold has the upper zone and one below it the lower zone, and zone
\* and z_score disagree only when the score lies above a threshold and
\* rounds down to it (then the zone is the upper one).
C14_ZoneOfFullPrecision ==
    CalcDone =>
      /\ calc_ret.zone = SAFE <=> RatGt(calc_z, Rat(299, 100))
      /\ calc_ret.zone = DISTRESS <=> ~RatGt(calc_z, Rat(181, 100))
      /\ calc_ret.zone \in Zones
      /\ calc_z.n >= 0 =>
           Units(calc_ret.z_score) \in {Floor4(calc_z), Floor4(calc_z) + 1}
      /\ Units(calc_ret.z_score) > 29900 => calc_ret.zone = SAFE
      /\ Units(calc_ret.z_score) < 29900 => calc_ret.zone # SAFE
      /\ Units(calc_ret.z_score) > 18100 => calc_ret.zone # DISTRESS
      /\ Units(calc_ret.z_score) < 18100 => calc_ret.zone = DISTRESS
      /\ calc_ret.zone # ZoneOf(calc_ret.z_score) =>
           /\ Units(calc_ret.z_score) \in {29900, 18100}
           /\ RatGt(calc_z, calc_ret.z_score)
           /\ calc_ret.zone = ZoneOf(calc_z)

\* C14 witness: a score above 2.99 was returned as 2.99 with the Safe zone.
C14_Witness ==
    /\ CalcDone
    /\ calc_ret.z_score = Rat(299, 100)
    /\ calc_ret.zone = SAFE

\* ------------------------------------------------------- resolver claims

ResolveDone == res_pc = "done" /\ tickers_json.status = "ok"

TickerHits ==
    { i \in 1..Len(tickers_json.body) :
        TickerMatches(tickers_json.body[i], Strip(upper(company_identifier))) }

NameHits ==
    { i \in 1..Len(tickers_json.body) :
        NameMatches(tickers_json.body[i], Strip(lower(company_identifier))) }

\* C10: when some entry's ticker equals the identifier (case-insensitively),
\* get_cik_and_ticker returns an entry whose ticker equals it, even if an
\* earlier entry matches by name containment; an entry that matches by name
\* only is returned only when no entry's ticker matches.
C10_TickerPreferred ==
    ResolveDone =>
        IF TickerHits # {}
        THEN \E i \in TickerHits : res_result = EntryResult(tickers_json.body[i])
        ELSE IF NameHits # {}
        THEN \E i \in NameHits : res_result = EntryResult(tickers_json.body[i])
        ELSE res_result = None

\* ------------------------------------------------------- handler claims

HandlerDone == h_pc = "done"

\* the resolver gave no entry for the company
Unresolved == get_cik_and_ticker(company, sec.tickers) = None

\* the locator gave no 10-Q, or its document could not be fetched
NoFiling ==
    /\ ~Unresolved
    /\ \/ get_latest_10q_filing(cik_ticker_info.cik, sec.submissions) = None
       \/ sec.document.status # "ok"

\* the fields that no variant locates in the text of the filing fetched
NotLocated ==
    SelectSeq(Keys, LAMBDA k :
        ExtractKey(LowerText(GetText(sec.document.body)), k) = None)

\* the filing was located and fetched and some field is not in its text
ExtractionIncomplete ==
    /\ ~Unresolved
    /\ ~NoFiling
    /\ NotLocated # <<>>

NoQuote ==
    /\ ~Unresolved
    /\ ~NoFiling
    /\ ~ExtractionIncomplete
    /\ get_stock_data(yf_info) = None

\* C8: when the filing was located and fetched but some of the seven fields
\* is not located in its text, the answer has status 500 and a detail that
\* lists exactly the fields that are missing; it is not a 404.
C8_ExtractionIncomplete500 ==
    (HandlerDone /\ ExtractionIncomplete) =>
        /\ status_code = 500
        /\ detail.message = "Missing required financial data fields"
        /\ detail.names = NotLocated

\* C9: the answer has status 404 exactly when the identifier is not
\* resolved, no 10-Q filing is retrieved or the quote is unavailable, with a
\* detail naming the resource; any other failure has status 500.
C9_NotFoundExactly ==
    HandlerDone =>
        /\ status_code \in {200, 404, 500}
        /\ status_code = 404 <=> (Unresolved \/ NoFiling \/ NoQuote)
        /\ Unresolved => detail = [message |-> "Company not found",
                                   names |-> <<company>>]
        /\ NoFiling => detail = [message |-> "Could not retrieve 10-Q filing data",
                                 names |-> <<company>>]
        /\ NoQuote => detail = [message |-> "Could not retrieve stock price data",
                                names |-> <<cik_ticker_info.ticker>>]
        /\ status_code = 200 => response # None

\* the collaborators of get_zscore in the order of the pipeline
StageOrder ==
    <<"get_cik_and_ticker", "get_financial_data_from_10q", "get_stock_data",
      "calculate_altman_z_score">>

IsPrefix(s, t) == Len(s) <= Len(t) /\ SubSeq(t, 1, Len(s)) = s

\* the handler stands at, or is past, the call of stage n
AtOrPast(n) ==
    \/ Len(calls) >= n
    \/ n = 2 /\ h_pc = "financial"
    \/ n = 3 /\ h_pc = "stock"
    \/ n = 4 /\ h_pc = "calculate"

\* C12: within a request the stages are called in the order resolver,
\* locator and extractor, market data, calculator, each at most once, and no
\* stage is called after an earlier one returned None: the quote is asked
\* for only after the extraction gave the fields, the extractor's result is
\* taken only from a filing that was located, and the calculator runs only
\* after resolver, extraction and quote all succeeded.
C12_StagesInOrder ==
    /\ IsPrefix(calls, StageOrder)
    /\ AtOrPast(2) => cik_ticker_info # None
    /\ fin_data # None =>
         /\ get_latest_10q_filing(cik_ticker_info.cik, sec.submissions) # None
         /\ sec.document.status = "ok"
    /\ AtOrPast(3) => /\ cik_ticker_info # None
                      /\ fin_data # None
                      /\ missing_fields(fin_data) = <<>>
    /\ AtOrPast(4) => /\ cik_ticker_info # None
                      /\ fin_data # None
                      /\ stock_data # None
    /\ zscore_result # None => calls = StageOrder

C12_Witness ==
    /\ h_pc = "done"
    /\ calls = StageOrder
    /\ status_code = 200

\* ------------------------------------------------------- locator claims

LocateDone == loc_pc = "done" /\ submissions_json.status = "ok"

\* the indices of the 10-Q entries of the history
TenQs ==
    { i \in 1..Len(submissions_json.body.form) :
        submissions_json.body.form[i] = "10-Q" }

\* C11: get_latest_10q_filing returns the 10-Q entry with the most recent
\* filing date among the 10-Q entries of the history, and None exactly when
\* the history has no 10-Q entry.
C11_MostRecent10Q ==
    LocateDone =>
        /\ filing = None <=> TenQs = {}
        /\ filing # None =>
             \E i \in TenQs :
                /\ filing = FilingAt(submissions_json.body, i, cik)
                /\ \A k \in TenQs :
                      submissions_json.body.filingDate[k].value
                          <= submissions_json.body.filingDate[i].value

====
